---- MODULE Spec2Model ----
(***************************************************************************)
(* Model of src/app.py: the POST /analyze-image handler (analyze_image),   *)
(* the JSON extraction helper (extract_first_json) and the normalisation   *)
(* of the parsed model output into a CrowdResult.                          *)
(*                                                                         *)
(* Representation.                                                         *)
(*  - The uploaded bytes are observed by the code only through their       *)
(*    truthiness and len(); `contents` holds the length.                   *)
(*  - A text is a sequence of lexemes (tokens).  A token is a record        *)
(*    [k, s, n]: k is the lexeme class, s its characters, n its number.    *)
(*    Each whitespace token is one whitespace character; string literals   *)
(*    of the model contain no brace, bracket or comma characters.          *)
(*  - A Python/JSON value is a record [t, n, s, e]: t the type tag, n the  *)
(*    number (floats are held in tenths), s the string, e the elements.    *)
(*    A dict is the sequence of its items in insertion order, each item a  *)
(*    value with t = "pair", s the key and e = <<value>>.                  *)
(***************************************************************************)
EXTENDS Integers, Sequences, FiniteSets, TLC

VARIABLES pc, contents, content_type, image_part, model_calls, raw_text,
          parsed, result, status_code, detail, responses, failed, stages

vars == <<pc, contents, content_type, image_part, model_calls, raw_text,
          parsed, result, status_code, detail, responses, failed, stages>>

\* ------------------------------------------------------------ bounds
\* Longest arbitrary (unstructured) model reply, in tokens.
MaxJunkLen == 4

\* ------------------------------------------------------------ config
MAX_UPLOAD_BYTES == 5 * 1024 * 1024

\* ------------------------------------------------------------ values
VNone == [t |-> "null", n |-> 0, s |-> "", e |-> <<>>]
VBool(b) == [t |-> "bool", n |-> IF b THEN 1 ELSE 0, s |-> "", e |-> <<>>]
VInt(i) == [t |-> "int", n |-> i, s |-> "", e |-> <<>>]
\* a finite float, in tenths
VFloat(tenths) == [t |-> "float", n |-> tenths, s |-> "", e |-> <<>>]
\* float('nan')
VNaN == [t |-> "float", n |-> 0, s |-> "nan", e |-> <<>>]
VStr(str) == [t |-> "str", n |-> 0, s |-> str, e |-> <<>>]
VList(items) == [t |-> "list", n |-> 0, s |-> "", e |-> items]
VDict(items) == [t |-> "dict", n |-> 0, s |-> "", e |-> items]
VPair(key, val) == [t |-> "pair", n |-> 0, s |-> key, e |-> <<val>>]

\* ------------------------------------------------------------ tokens
Tok(k, s, n) == [k |-> k, s |-> s, n |-> n]
LBRACE == Tok("p", "{", 0)
RBRACE == Tok("p", "}", 0)
LBRACK == Tok("p", "[", 0)
RBRACK == Tok("p", "]", 0)
COMMA == Tok("p", ",", 0)
COLON == Tok("p", ":", 0)
SP == Tok("ws", " ", 0)
NL == Tok("ws", "\n", 0)
TStr(s) == Tok("str", s, 0)
TInt(n) == Tok("int", "", n)
TFloat(tenths) == Tok("float", "", tenths)
TLit(s) == Tok("lit", s, 0)
\* a word of prose: not the start of any JSON value
TWord(s) == Tok("word", s, 0)

Min(S) == CHOOSE x \in S : \A y \in S : x <= y
Max(S) == CHOOSE x \in S : \A y \in S : x >= y

\* ------------------------------------------------------------ dict
\* dict.__setitem__ as the JSON decoder applies it: a repeated key keeps
\* its position and takes the later value.
DictPut(items, key, val) ==
    IF \E i \in 1..Len(items) : items[i].s = key
    THEN [i \in 1..Len(items) |->
             IF items[i].s = key THEN VPair(key, val) ELSE items[i]]
    ELSE Append(items, VPair(key, val))

DictHas(d, key) == \E i \in 1..Len(d.e) : d.e[i].s = key

\* dict.get(key, default)
DictGet(d, key, default) ==
    IF DictHas(d, key)
    THEN d.e[CHOOSE i \in 1..Len(d.e) : d.e[i].s = key].e[1]
    ELSE default

\* ------------------------------------------------------------ json.loads
ParseFail == [ok |-> FALSE, v |-> VNone, i |-> 0]
ParseOk(v, i) == [ok |-> TRUE, v |-> v, i |-> i]

\* the decoder's whitespace skip: first index >= i that is not whitespace
RECURSIVE SkipWs(_, _)
SkipWs(toks, i) ==
    IF i <= Len(toks) /\ toks[i].k = "ws" THEN SkipWs(toks, i + 1) ELSE i

RECURSIVE ScanOnce(_, _)
RECURSIVE JSONObject(_, _, _)
RECURSIVE JSONArray(_, _, _)

\* json.scanner.scan_once at index i (no whitespace is skipped here)
ScanOnce(toks, i) ==
    IF i > Len(toks) THEN ParseFail
    ELSE LET c == toks[i] IN
         CASE c.k = "str" -> ParseOk(VStr(c.s), i + 1)
           [] c.k = "int" -> ParseOk(VInt(c.n), i + 1)
           [] c.k = "float" -> ParseOk(VFloat(c.n), i + 1)
           [] c.k = "lit" /\ c.s = "null" -> ParseOk(VNone, i + 1)
           [] c.k = "lit" /\ c.s = "true" -> ParseOk(VBool(TRUE), i + 1)
           [] c.k = "lit" /\ c.s = "false" -> ParseOk(VBool(FALSE), i + 1)
           [] c.k = "lit" /\ c.s = "NaN" -> ParseOk(VNaN, i + 1)
           [] c = LBRACE ->
                LET j == SkipWs(toks, i + 1) IN
                IF j <= Len(toks) /\ toks[j] = RBRACE
                THEN ParseOk(VDict(<<>>), j + 1)
                ELSE JSONObject(toks, j, <<>>)
           [] c = LBRACK ->
                LET j == SkipWs(toks, i + 1) IN
                IF j <= Len(toks) /\ toks[j] = RBRACK
                THEN ParseOk(VList(<<>>), j + 1)
                ELSE JSONArray(toks, j, <<>>)
           [] OTHER -> ParseFail

\* json.decoder.JSONObject from a position where a key is expected
JSONObject(toks, i, items) ==
    IF i > Len(toks) \/ toks[i].k # "str" THEN ParseFail
    ELSE LET c == SkipWs(toks, i + 1) IN
         IF c > Len(toks) \/ toks[c] # COLON THEN ParseFail
         ELSE LET r == ScanOnce(toks, SkipWs(toks, c + 1)) IN
              IF ~r.ok THEN ParseFail
              ELSE LET m == SkipWs(toks, r.i)
                       put == DictPut(items, toks[i].s, r.v)
                   IN IF m > Len(toks) THEN ParseFail
                      ELSE IF toks[m] = RBRACE THEN ParseOk(VDict(put), m + 1)
                      ELSE IF toks[m] = COMMA
                           THEN JSONObject(toks, SkipWs(toks, m + 1), put)
                      ELSE ParseFail

\* json.decoder.JSONArray from a position where an element is expected
JSONArray(toks, i, items) ==
    LET r == ScanOnce(toks, i) IN
    IF ~r.ok THEN ParseFail
    ELSE LET m == SkipWs(toks, r.i)
             put == Append(items, r.v)
         IN IF m > Len(toks) THEN ParseFail
            ELSE IF toks[m] = RBRACK THEN ParseOk(VList(put), m + 1)
            ELSE IF toks[m] = COMMA
                 THEN JSONArray(toks, SkipWs(toks, m + 1), put)
            ELSE ParseFail

\* json.loads: one value, then nothing but whitespace ("Extra data" otherwise)
json_loads(toks) ==
    LET r == ScanOnce(toks, SkipWs(toks, 1)) IN
    IF r.ok /\ SkipWs(toks, r.i) = Len(toks) + 1 THEN r ELSE ParseFail

\* ------------------------------------------------------------ re
\* faulty variant of MatchAt: a non-greedy [\s\S]*? stops at the first "}" after i
MatchAtNonGreedy(text, i) ==
    LET ends == {j \in (i + 1)..Len(text) : text[j] = RBRACE} IN
    IF text[i] = LBRACE /\ ends # {} THEN Min(ends) ELSE 0

\* re.search(r"(\{[\s\S]*\})", text) tried at start position i: the greedy
\* [\s\S]* runs to the end of the text and backs off to the last "}" after
\* i.  0 when there is no match at i, else the index of the match's last
\* token.
MatchAt(text, i) ==
    LET ends == {j \in (i + 1)..Len(text) : text[j] = RBRACE} IN
    IF text[i] = LBRACE /\ ends # {} THEN Max(ends) ELSE 0

\* re.search: the match at the leftmost start position that has one;
\* start = 0 when the pattern matches nowhere (None).
re_search(text) ==
    LET starts == {i \in 1..Len(text) : MatchAt(text, i) # 0} IN
    IF starts = {} THEN [start |-> 0, end |-> 0]
    ELSE [start |-> Min(starts), end |-> MatchAt(text, Min(starts))]

\* re.sub(r",\s*<closer>", "<closer>", s) from index i on: non-overlapping
\* matches, left to right, in one pass.
RECURSIVE re_sub_comma(_, _, _)
re_sub_comma(s, i, closer) ==
    IF i > Len(s) THEN <<>>
    ELSE LET j == SkipWs(s, i + 1) IN
         IF s[i] = COMMA /\ j <= Len(s) /\ s[j] = closer
         THEN <<closer>> \o re_sub_comma(s, j + 1, closer)
         ELSE <<s[i]>> \o re_sub_comma(s, i + 1, closer)

\* lines 60-61: the repair pass
cleaned(candidate) ==
    re_sub_comma(re_sub_comma(candidate, 1, RBRACE), 1, RBRACK)

\* extract_first_json: [ok, v]; ok = FALSE stands for the raised exception
extract_first_json(text) ==
    LET m == re_search(text) IN
    IF m.start = 0 THEN [ok |-> FALSE, v |-> VNone]
    ELSE LET candidate == SubSeq(text, m.start, m.end)
             strict == json_loads(candidate)
         IN IF strict.ok THEN [ok |-> TRUE, v |-> strict.v]
            ELSE LET again == json_loads(cleaned(candidate)) IN
                 [ok |-> again.ok, v |-> again.v]

\* ------------------------------------------------------------ builtins
Coerced(v) == [ok |-> TRUE, v |-> v]
Raised == [ok |-> FALSE, v |-> VNone]

\* int(str) on the strings of the model: only "12" is an integer literal
IntOfStr(s) == IF s = "12" THEN Coerced(VInt(12)) ELSE Raised

\* int(x): truncation toward zero for floats; ValueError / OverflowError /
\* TypeError are Raised
PyInt(v) ==
    CASE v.t = "int" -> Coerced(VInt(v.n))
      [] v.t = "bool" -> Coerced(VInt(v.n))
      [] v.t = "float" /\ v.s = "" ->
           Coerced(VInt(IF v.n >= 0 THEN v.n \div 10 ELSE -((-v.n) \div 10)))
      [] v.t = "str" -> IntOfStr(v.s)
      [] OTHER -> Raised

\* float(x)
PyFloat(v) ==
    CASE v.t = "int" -> Coerced(VFloat(10 * v.n))
      [] v.t = "bool" -> Coerced(VFloat(10 * v.n))
      [] v.t = "float" -> Coerced(v)
      [] v.t = "str" /\ IntOfStr(v.s).ok -> Coerced(VFloat(10 * IntOfStr(v.s).v.n))
      [] OTHER -> Raised

\* bool(x): Python truthiness
PyBool(v) ==
    CASE v.t = "null" -> FALSE
      [] v.t = "bool" -> v.n = 1
      [] v.t = "int" -> v.n # 0
      [] v.t = "float" -> v.n # 0 \/ v.s # ""
      [] v.t = "str" -> v.s # ""
      [] OTHER -> Len(v.e) > 0

\* faulty variant of PyLower: the value is not lower-cased
PyLowerMissing(s) == s

\* str.lower on the strings of the model
PyLower(s) ==
    CASE s = "Train" -> "train"
      [] s = "Flight" -> "flight"
      [] OTHER -> s

\* str(x) for the numbers and booleans of the model
PyStr(v) ==
    CASE v.t = "bool" -> IF v.n = 1 THEN "True" ELSE "False"
      [] v.t = "float" /\ v.s # "" -> v.s
      [] v = VFloat(885) -> "88.5"
      [] v = VFloat(-5) -> "-0.5"
      [] v = VInt(-3) -> "-3"
      [] v = VInt(0) -> "0"
      [] v = VInt(7) -> "7"
      [] v = VInt(15) -> "15"
      [] v = VInt(25) -> "25"
      [] OTHER -> "?"

PyMin(a, b) == IF a <= b THEN a ELSE b
PyMax(a, b) == IF a >= b THEN a ELSE b

\* faulty variant of ClampScore: the lower clamp is missing
ClampScoreNoFloor(n) == PyMin(10, n)

\* line 153: max(1, min(10, crowd_score))
ClampScore(n) == PyMax(1, PyMin(10, n))

valid_types == {"flight", "train", "bus", "subway", "ferry", "none"}

\* ------------------------------------------------------------ CrowdResult
NoResult ==
    [people_count |-> VNone, crowd_score |-> VNone, crowd_label |-> VNone,
     confidence |-> VNone, rationale |-> VNone, screen_detected |-> VNone,
     departure_type |-> VNone, departure_info |-> VNone]

\* pydantic's validation of an Optional[str] field.  A number or boolean is
\* coerced to its str() by a lax build (pydantic 1.x) and rejected by a
\* strict one (pydantic 2.x); the source pins neither.
StrField(v, lax) ==
    CASE v.t = "null" -> Coerced(VNone)
      [] v.t = "str" -> Coerced(v)
      [] v.t \in {"int", "float", "bool"} ->
           IF lax THEN Coerced(VStr(PyStr(v))) ELSE Raised
      [] OTHER -> Raised

\* lines 145-148
NormPeopleCount(p) ==
    LET people_count == DictGet(p, "people_count", VNone) IN
    IF people_count # VNone THEN PyInt(people_count) ELSE Coerced(VNone)

\* lines 150-153
NormCrowdScore(p) ==
    LET crowd_score == DictGet(p, "crowd_score", VNone) IN
    IF crowd_score # VNone
    THEN LET c == PyInt(crowd_score) IN
         IF c.ok THEN Coerced(VInt(ClampScore(c.v.n))) ELSE Raised
    ELSE Coerced(VNone)

\* lines 156-158
NormConfidence(p) ==
    LET confidence == DictGet(p, "confidence", VNone) IN
    IF confidence # VNone THEN PyFloat(confidence) ELSE Coerced(VNone)

\* lines 163-165
NormScreenDetected(p) ==
    LET screen_detected == DictGet(p, "screen_detected", VNone) IN
    IF screen_detected # VNone THEN VBool(PyBool(screen_detected)) ELSE VNone

\* faulty variant of NormDepartureType: no membership test against valid_types
NormDepartureTypeUnchecked(p) ==
    LET departure_type == DictGet(p, "departure_type", VNone) IN
    IF PyBool(departure_type) /\ departure_type.t = "str"
    THEN VStr(PyLower(departure_type.s))
    ELSE IF ~PyBool(NormScreenDetected(p)) THEN VStr("none") ELSE VNone

\* lines 167-174
NormDepartureType(p) ==
    LET departure_type == DictGet(p, "departure_type", VNone) IN
    IF PyBool(departure_type) /\ departure_type.t = "str"
    THEN IF PyLower(departure_type.s) \notin valid_types
         THEN VStr("none")
         ELSE VStr(PyLower(departure_type.s))
    ELSE IF ~PyBool(NormScreenDetected(p)) THEN VStr("none") ELSE VNone

\* faulty variant of OnlyDicts: the entries are not filtered
OnlyDictsKeepAll(entries) == entries

\* line 183: [entry for entry in departure_info if isinstance(entry, dict)]
RECURSIVE OnlyDicts(_)
OnlyDicts(entries) ==
    IF entries = <<>> THEN <<>>
    ELSE (IF Head(entries).t = "dict" THEN <<Head(entries)>> ELSE <<>>)
         \o OnlyDicts(Tail(entries))

\* lines 176-183
NormDepartureInfo(p) ==
    LET departure_info == DictGet(p, "departure_info", VNone) IN
    IF departure_info = VNone THEN VList(<<>>)
    ELSE IF departure_info.t # "list" THEN VList(<<>>)
    ELSE VList(OnlyDicts(departure_info.e))

\* lines 144-197, the body of the try block: [ok, v]; ok = FALSE stands for
\* the exception the except clause turns into the 500.
Normalize(p, lax) ==
    LET people_count == NormPeopleCount(p)
        crowd_score == NormCrowdScore(p)
        confidence == NormConfidence(p)
        crowd_label == StrField(DictGet(p, "crowd_label", VNone), lax)
        rationale == StrField(DictGet(p, "rationale", VStr("")), lax)
    IN IF people_count.ok /\ crowd_score.ok /\ confidence.ok
          /\ crowd_label.ok /\ rationale.ok
       THEN [ok |-> TRUE,
             v |-> [people_count |-> people_count.v,
                    crowd_score |-> crowd_score.v,
                    crowd_label |-> crowd_label.v,
                    confidence |-> confidence.v,
                    rationale |-> rationale.v,
                    screen_detected |-> NormScreenDetected(p),
                    departure_type |-> NormDepartureType(p),
                    departure_info |-> NormDepartureInfo(p)]]
       ELSE [ok |-> FALSE, v |-> NoResult]

\* a NaN anywhere inside a value
RECURSIVE HasNaN(_)
HasNaN(v) == v = VNaN \/ \E i \in 1..Len(v.e) : HasNaN(v.e[i])

\* line 199: JSONResponse renders its content with json.dumps(...,
\* allow_nan=False), which raises ValueError on a NaN; nothing catches it
\* and the framework answers 500.
RenderRaises(r) == HasNaN(r.confidence) \/ HasNaN(r.departure_info)

\* ------------------------------------------------------------ inputs
\* Upload lengths: empty, one byte, the ceiling, one byte over it.
Lengths == {0, 1, MAX_UPLOAD_BYTES, MAX_UPLOAD_BYTES + 1}

\* UploadFile.content_type: "None" stands for None
ContentTypes == {"None", "", "image/png"}

Keys ==
    {"people_count", "crowd_score", "crowd_label", "confidence", "rationale",
     "screen_detected", "departure_type", "departure_info"}

\* a departure_info array: a record, a string, a number, an empty record,
\* null, a nested list
MixedList ==
    <<LBRACK, LBRACE, TStr("gate"), COLON, TStr("12"), RBRACE, COMMA,
      TStr("airplane"), COMMA, TInt(7), COMMA, LBRACE, RBRACE, COMMA,
      TLit("null"), COMMA, LBRACK, RBRACK, RBRACK>>

\* JSON values the vision model may write under any key, as token sequences
ValueForms ==
    {<<TInt(n)>> : n \in {-3, 0, 7, 15, 25}}
    \cup {<<TFloat(885)>>, <<TFloat(-5)>>, <<TLit("NaN")>>}
    \cup {<<TLit(s)>> : s \in {"true", "false", "null"}}
    \cup {<<TStr(s)>> : s \in {"Flight", "Train", "train", "airplane", "", "12"}}
    \cup {<<LBRACK, RBRACK>>, MixedList, <<LBRACE, RBRACE>>,
          <<LBRACK, LBRACE, TStr("gate"), COLON, TLit("NaN"), RBRACE, RBRACK>>}

Member(key, form) == <<TStr(key), COLON, SP>> \o form

\* the model's JSON objects: one field, or departure_type with screen_detected
ObjectBodies ==
    {<<>>}
    \cup {Member(k, f) : k \in Keys, f \in ValueForms}
    \cup {Member("screen_detected", f) \o <<COMMA, SP>> \o Member("departure_type", g) :
            f \in ValueForms, g \in ValueForms}

\* how the reply wraps the object: bare, inside prose, with a trailing comma,
\* with a trailing comma and whitespace inside prose
Wrap(body, style) ==
    CASE style = 0 -> <<LBRACE>> \o body \o <<RBRACE>>
      [] style = 1 -> <<TWord("Here"), NL, LBRACE>> \o body \o <<RBRACE, NL, TWord("more")>>
      [] style = 2 -> <<LBRACE>> \o body \o <<COMMA, RBRACE>>
      [] OTHER -> <<TWord("Here"), LBRACE>> \o body \o <<COMMA, NL, SP, RBRACE>>

\* spec.md section 8, scenario 1
Scenario1 ==
    <<TWord("Here"), NL, LBRACE>>
    \o Member("people_count", <<TInt(12)>>) \o <<COMMA, SP>>
    \o Member("crowd_score", <<TInt(7)>>) \o <<COMMA, SP>>
    \o Member("crowd_label", <<TStr("Medium")>>) \o <<COMMA, SP>>
    \o Member("confidence", <<TFloat(885)>>) \o <<COMMA, SP>>
    \o Member("rationale", <<TStr("Moderate crowd near gates.")>>) \o <<COMMA, SP>>
    \o Member("screen_detected", <<TLit("true")>>) \o <<COMMA, SP>>
    \o Member("departure_type", <<TStr("Flight")>>) \o <<COMMA, SP>>
    \o Member("departure_info",
              <<LBRACK, LBRACE, TStr("flight_number"), COLON, TStr("BA117"),
                COMMA, TStr("gate"), COLON, TStr("12"), RBRACE, RBRACK>>)
    \o <<RBRACE, NL, TWord("more")>>

\* spec.md section 8, scenario 2
Scenario2 ==
    <<LBRACE>> \o Member("people_count", <<TInt(3)>>) \o <<COMMA, SP>>
    \o Member("crowd_score", <<TInt(2)>>) \o <<COMMA, RBRACE>>

\* tokens of an unstructured reply
JunkAlphabet == {LBRACE, RBRACE, COMMA, SP, TWord("Here")}

JunkTexts == UNION {[1..n -> JunkAlphabet] : n \in 0..MaxJunkLen}

\* every text the model call may return; <<>> is the "" of a reply
\* without text
Replies ==
    JunkTexts
    \cup {Wrap(b, s) : b \in ObjectBodies, s \in 0..3}
    \cup {Scenario1, Scenario2}

\* ------------------------------------------------------------ handler
NoImagePart == [data |-> 0, mime_type |-> ""]

Init ==
    /\ pc = "start"
    /\ contents = 0
    /\ content_type = "None"
    /\ image_part = NoImagePart
    /\ model_calls = 0
    /\ raw_text = <<>>
    /\ parsed = VNone
    /\ result = NoResult
    /\ status_code = 0
    /\ detail = ""
    /\ responses = 0
    /\ failed = ""
    /\ stages = <<>>

\* faulty variant of HTTPException: the error is recorded but the handler goes on
HTTPExceptionSwallowed(code, msg, stage) ==
    /\ status_code' = code
    /\ detail' = msg
    /\ responses' = responses + 1
    /\ failed' = stage
    /\ pc' = pc

\* raise HTTPException(status_code=code, detail=msg): the request ends
HTTPException(code, msg, stage) ==
    /\ status_code' = code
    /\ detail' = msg
    /\ responses' = responses + 1
    /\ failed' = stage
    /\ pc' = "done"

\* line 108: not contents
IsEmpty(c) == c = 0

\* faulty variant of TooLarge: the ceiling itself is rejected (>= for >)
TooLargeInclusive(c) == c >= MAX_UPLOAD_BYTES

\* line 110: len(contents) > MAX_UPLOAD_BYTES
TooLarge(c) == c > MAX_UPLOAD_BYTES

\* lines 107-112
Validate ==
    /\ pc = "start"
    /\ \E c \in Lengths, ct \in ContentTypes :
         /\ contents' = c
         /\ content_type' = ct
         /\ IF IsEmpty(c)
            THEN HTTPException(400, "Empty file", "validate")
            ELSE IF TooLarge(c)
            THEN HTTPException(413, "File too large", "validate")
            ELSE /\ pc' = "prepare"
                 /\ UNCHANGED <<status_code, detail, responses, failed>>
    /\ stages' = Append(stages, "validate")
    /\ UNCHANGED <<image_part, model_calls, raw_text, parsed, result>>

\* lines 115-119; Part.from_bytes is library code that may raise
BuildImagePart ==
    /\ pc = "prepare"
    /\ \E raises \in BOOLEAN :
         IF raises
         THEN /\ HTTPException(500, "Failed to prepare image for analysis", "prepare")
              /\ UNCHANGED image_part
         ELSE /\ image_part' =
                   [data |-> contents,
                    mime_type |-> IF content_type \in {"None", ""}
                                  THEN "image/jpeg" ELSE content_type]
              /\ pc' = "call"
              /\ UNCHANGED <<status_code, detail, responses, failed>>
    /\ stages' = Append(stages, "prepare")
    /\ UNCHANGED <<contents, content_type, model_calls, raw_text, parsed, result>>

\* lines 122-133; the provider call raises or returns a text
CallModel ==
    /\ pc = "call"
    /\ model_calls' = model_calls + 1
    /\ \/ /\ HTTPException(502, "Vision model request failed", "call")
          /\ UNCHANGED raw_text
       \/ /\ \E text \in Replies : raw_text' = text
          /\ pc' = "extract"
          /\ UNCHANGED <<status_code, detail, responses, failed>>
    /\ stages' = Append(stages, "call")
    /\ UNCHANGED <<contents, content_type, image_part, parsed, result>>

\* lines 136-141
ExtractJson ==
    /\ pc = "extract"
    /\ LET r == extract_first_json(raw_text) IN
       IF r.ok
       THEN /\ parsed' = r.v
            /\ pc' = "normalize"
            /\ UNCHANGED <<status_code, detail, responses, failed>>
       ELSE /\ HTTPException(502, "Model returned unexpected output format", "extract")
            /\ UNCHANGED parsed
    /\ stages' = Append(stages, "extract")
    /\ UNCHANGED <<contents, content_type, image_part, model_calls, raw_text, result>>

\* lines 144-197
NormalizeResult ==
    /\ pc = "normalize"
    /\ \E lax \in BOOLEAN :
         LET r == Normalize(parsed, lax) IN
         IF r.ok
         THEN /\ result' = r.v
              /\ pc' = "respond"
              /\ UNCHANGED <<status_code, detail, responses, failed>>
         ELSE /\ HTTPException(500, "Failed to normalize model response", "normalize")
              /\ UNCHANGED result
    /\ stages' = Append(stages, "normalize")
    /\ UNCHANGED <<contents, content_type, image_part, model_calls, raw_text, parsed>>

\* line 199
Respond ==
    /\ pc = "respond"
    /\ IF RenderRaises(result)
       THEN HTTPException(500, "Internal Server Error", "respond")
       ELSE /\ status_code' = 200
            /\ responses' = responses + 1
            /\ pc' = "done"
            /\ UNCHANGED <<detail, failed>>
    /\ stages' = Append(stages, "respond")
    /\ UNCHANGED <<contents, content_type, image_part, model_calls, raw_text,
                   parsed, result>>

Next ==
    \/ Validate
    \/ BuildImagePart
    \/ CallModel
    \/ ExtractJson
    \/ NormalizeResult
    \/ Respond

Spec == Init /\ [][Next]_vars

\* ------------------------------------------------------------ properties
StageOrder == <<"validate", "prepare", "call", "extract", "normalize", "respond">>

Ran(stage) == \E i \in 1..Len(stages) : stages[i] = stage

WithinCeiling == contents >= 1 /\ contents <= MAX_UPLOAD_BYTES

\* C1, as stated: empty content is rejected with 400 "Empty file"; content
\* of 1..MAX_UPLOAD_BYTES bytes passes validation and is forwarded to the
\* model call; content of MAX_UPLOAD_BYTES + 1 bytes or more is rejected
\* with 413 and never forwarded.
C1_AlwaysForwarded ==
    (pc = "done") =>
        /\ contents = 0 =>
             status_code = 400 /\ detail = "Empty file" /\ model_calls = 0
        /\ WithinCeiling =>
             status_code \notin {400, 413} /\ model_calls = 1
        /\ contents >= MAX_UPLOAD_BYTES + 1 =>
             status_code = 413 /\ model_calls = 0

\* C1, amended: as C1, except that content of 1..MAX_UPLOAD_BYTES bytes
\* passes validation (it is never answered 400 or 413) and is forwarded to
\* the model call exactly when the construction of the image part, the
\* step between validation and the call, does not fail.
C1_ForwardedUnlessPrepareFails ==
    Ran("validate") =>
        /\ contents = 0 =>
             /\ status_code = 400 /\ detail = "Empty file"
             /\ model_calls = 0 /\ pc = "done"
        /\ WithinCeiling =>
             /\ status_code \notin {400, 413} /\ failed # "validate"
             /\ (pc = "done") => (model_calls = 1 <=> failed # "prepare")
             /\ (model_calls = 1) => image_part.data = contents
        /\ contents >= MAX_UPLOAD_BYTES + 1 =>
             /\ status_code = 413 /\ model_calls = 0 /\ pc = "done"

\* C1 witness: an upload of exactly MAX_UPLOAD_BYTES bytes reached the model
C1_Witness ==
    contents = MAX_UPLOAD_BYTES /\ model_calls = 1 /\ image_part.data = MAX_UPLOAD_BYTES

\* C2, as stated: the status is that of the first failing stage among
\* validate, prepare, call, extract, normalize (400 / 413, 500, 502, 502,
\* 500), and the response is 200 with the normalized result if and only if
\* none of these stages fails.
C2_StatusByFirstFailingStage ==
    (pc = "done") =>
        LET stageFailed ==
                failed \in {"validate", "prepare", "call", "extract", "normalize"}
        IN /\ (Ran("extract") /\ ~extract_first_json(raw_text).ok) => failed = "extract"
           /\ status_code =
                (CASE contents = 0 -> 400
                   [] contents > MAX_UPLOAD_BYTES -> 413
                   [] failed = "prepare" -> 500
                   [] failed = "call" -> 502
                   [] failed = "extract" -> 502
                   [] failed = "normalize" -> 500
                   [] OTHER -> 200)
           /\ (status_code = 200) <=> ~stageFailed
           /\ (status_code = 200) =>
                \E lax \in BOOLEAN : Normalize(parsed, lax) = [ok |-> TRUE, v |-> result]

\* C3: the model is invoked at most once and only after both validation
\* checks passed; the stages run in order, none twice; a failure ends the
\* request with exactly one error response and no later stage runs.
C3_LinearNoRetry ==
    /\ model_calls <= 1
    /\ (model_calls = 1) <=> Ran("call")
    /\ Ran("call") => WithinCeiling /\ stages[1] = "validate"
    /\ stages = SubSeq(StageOrder, 1, Len(stages))
    /\ responses <= 1
    /\ (failed # "") =>
         /\ responses = 1
         /\ status_code \in {400, 413, 500, 502}
         /\ stages[Len(stages)] = failed
         /\ ~ENABLED Next

\* C3 witness: the model call itself failed and the request ended there
C3_Witness ==
    failed = "call" /\ model_calls = 1 /\ status_code = 502 /\ Len(stages) = 3

Responded200 == pc = "done" /\ status_code = 200

ParsedHas(key) == parsed.t = "dict" /\ DictHas(parsed, key)

ParsedGet(key) == DictGet(parsed, key, VNone)

ClosedSet == {"flight", "train", "bus", "subway", "ferry", "none"}

\* C4: an integer crowd_score n of the model's JSON appears in the 200
\* response as max(1, min(10, n)): 15 and 25 give 10, -3 gives 1, a value
\* already in 1..10 is unchanged.
C4_CrowdScoreClamped ==
    (Responded200 /\ ParsedGet("crowd_score").t = "int") =>
        LET n == ParsedGet("crowd_score").n
            out == result.crowd_score
        IN /\ out.t = "int" /\ out.n >= 1 /\ out.n <= 10
           /\ out.n = (IF n < 1 THEN 1 ELSE IF n > 10 THEN 10 ELSE n)
           /\ n \in {15, 25} => out.n = 10
           /\ (n = -3) => out.n = 1
           /\ (n = 7) => out.n = 7

\* C4 witness: a 200 response to a crowd_score of -3, answered 1
C4_Witness ==
    /\ Responded200
    /\ ParsedGet("crowd_score") = VInt(-3)
    /\ result.crowd_score = VInt(1)

\* C5: in a 200 response departure_type is a member of the closed set or
\* unset; it is unset only when the normalized screen_detected is true; and
\* when the model's JSON has no departure_type and screen_detected is
\* false, null or absent, it is "none".
C5_DepartureTypeClosed ==
    Responded200 =>
        /\ \/ result.departure_type = VNone
           \/ /\ result.departure_type.t = "str"
              /\ result.departure_type.s \in ClosedSet
        /\ (result.departure_type = VNone) => result.screen_detected = VBool(TRUE)
        /\ (/\ ~ParsedHas("departure_type")
            /\ ParsedGet("screen_detected") \in {VNone, VBool(FALSE)})
           => result.departure_type = VStr("none")

\* C5 witness: departure_type is left unset in a 200 response
C5_Witness ==
    /\ Responded200
    /\ result.departure_type = VNone
    /\ ~ParsedHas("departure_type")
    /\ result.screen_detected = VBool(TRUE)

\* strings that are a case variant or a typo variant of a member of the
\* closed set, and not a member themselves
CaseVariants == {"Train", "Flight"}
TypoVariants == {"airplane"}

\* C6, as stated: a departure_type string that is a case variant or a typo
\* variant of a member of the closed set normalizes to "none".
C6_VariantsBecomeNone ==
    (/\ Responded200
     /\ ParsedGet("departure_type").t = "str"
     /\ ParsedGet("departure_type").s \in CaseVariants \cup TypoVariants)
    => result.departure_type = VStr("none")

\* C6, amended: a departure_type string that differs from a member of the
\* closed set only in letter case normalizes to that member ("Train" gives
\* "train", "Flight" gives "flight"); a non-empty string whose lower-case
\* form is not a member ("airplane") normalizes to "none".
C6_CaseFoldedTyposNone ==
    (Responded200 /\ ParsedGet("departure_type").t = "str") =>
        LET s == ParsedGet("departure_type").s IN
        /\ (s = "Train") => result.departure_type = VStr("train")
        /\ (s = "Flight") => result.departure_type = VStr("flight")
        /\ (s \in TypoVariants) => result.departure_type = VStr("none")
        /\ (s \in ClosedSet) => result.departure_type = VStr(s)

\* C6 witness: "Train" answered as "train"
C6_Witness ==
    /\ Responded200
    /\ ParsedGet("departure_type") = VStr("Train")
    /\ result.departure_type = VStr("train")

\* C7, on the values it names other than non-empty strings: a departure_type
\* that is present and is an empty string, a number, a boolean, a list or an
\* object normalizes to "none", whatever screen_detected is.
C7_NonStringBecomesNone ==
    (/\ Responded200
     /\ ParsedHas("departure_type")
     /\ ParsedGet("departure_type").t # "null"
     /\ ParsedGet("departure_type").t = "str" => ParsedGet("departure_type").s = "")
    => result.departure_type = VStr("none")

IsDictEntry(entry) == entry.t = "dict"

\* C8: departure_info never makes normalization fail; absent, null or not a
\* list gives the empty list; a list gives exactly its key/value records,
\* in their original order.
C8_DepartureInfoFiltered ==
    Ran("normalize") =>
        LET given == ParsedGet("departure_info") IN
        /\ (\A k \in {"people_count", "crowd_score", "crowd_label",
                      "confidence", "rationale"} : ~ParsedHas(k))
           => failed # "normalize"
        /\ (failed # "normalize") =>
             result.departure_info =
                 (IF given.t = "list"
                  THEN VList(SelectSeq(given.e, IsDictEntry))
                  ELSE VList(<<>>))

\* C8 witness: a list of six entries, two of them records, was normalized
C8_Witness ==
    /\ Ran("normalize")
    /\ ParsedGet("departure_info").t = "list"
    /\ Len(ParsedGet("departure_info").e) = 6
    /\ Len(result.departure_info.e) = 2
    /\ result.departure_info.e[2] = VDict(<<>>)

\* C9, as stated: in a 200 response people_count is unset when the model's
\* JSON omits it or gives null, and otherwise it is an integer >= 0.
C9_PeopleCountNonNegative ==
    Responded200 =>
        IF ParsedGet("people_count") = VNone
        THEN result.people_count = VNone
        ELSE result.people_count.t = "int" /\ result.people_count.n >= 0

\* indices of the first "{" and the last "}" of a text
BraceOpens(text) == {i \in 1..Len(text) : text[i] = LBRACE}
BraceCloses(text) == {i \in 1..Len(text) : text[i] = RBRACE}

\* the text has a "{" followed by a later "}"
HasCandidate(text) ==
    /\ BraceOpens(text) # {}
    /\ BraceCloses(text) # {}
    /\ Min(BraceOpens(text)) < Max(BraceCloses(text))

CandidateOf(text) == SubSeq(text, Min(BraceOpens(text)), Max(BraceCloses(text)))

\* token i of c is a comma directly before a "}" or "]", or whitespace
\* between such a comma and its closer
RemovedByRepair(c, i) ==
    \E k \in 1..i, j \in (i + 1)..Len(c) :
        /\ c[k] = COMMA
        /\ c[j] \in {RBRACE, RBRACK}
        /\ \A m \in (k + 1)..(j - 1) : c[m].k = "ws"

\* c without the tokens the trailing-comma repair removes
RepairOf(c) ==
    LET keep == {i \in 1..Len(c) : ~RemovedByRepair(c, i)} IN
    [n \in 1..Cardinality(keep) |->
        c[CHOOSE i \in keep : Cardinality({j \in keep : j <= i}) = n]]

\* C10: the candidate runs from the first "{" to the last "}"; a text
\* without one (the empty text included) ends the request with 502 and no
\* normalization; a candidate that parses strictly is returned as parsed;
\* the trailing-comma repair is tried only after strict parsing failed, and
\* a candidate that still fails ends the request with 502; scenario 2
\* parses after repair to people_count = 3 and crowd_score = 2.
C10_ExtractFirstJson ==
    Ran("extract") =>
        LET rejected ==
                /\ failed = "extract" /\ status_code = 502 /\ pc = "done"
                /\ ~Ran("normalize") /\ parsed = VNone
        IN /\ IF ~HasCandidate(raw_text) THEN rejected
              ELSE LET strict == json_loads(CandidateOf(raw_text))
                       repaired == json_loads(RepairOf(CandidateOf(raw_text)))
                   IN /\ strict.ok => (failed # "extract" /\ parsed = strict.v)
                      /\ (~strict.ok /\ repaired.ok) =>
                             (failed # "extract" /\ parsed = repaired.v)
                      /\ (~strict.ok /\ ~repaired.ok) => rejected
           /\ (raw_text = <<>>) => rejected
           /\ (raw_text = Scenario2) =>
                parsed = VDict(<<VPair("people_count", VInt(3)),
                                 VPair("crowd_score", VInt(2))>>)

\* C10 witness: scenario 2 was repaired, parsed and answered
C10_Witness ==
    /\ raw_text = Scenario2
    /\ ~json_loads(CandidateOf(raw_text)).ok
    /\ Responded200
    /\ result.people_count = VInt(3)
    /\ result.crowd_score = VInt(2)

====
